---- MODULE Spec2Model ----
(***************************************************************************)
(* Project-collaboration backend: the role registry (User.projectRoles),   *)
(* the Project / Content / Version collections and the controllers that    *)
(* guard and mutate them.                                                  *)
(*                                                                         *)
(* Storage calls (findById, create, save, remove, updateMany) are taken at *)
(* their documented meaning: save() persists the fields the handler's      *)
(* assignments changed, remove() deletes the one document.  A property     *)
(* access on a null document is a TypeError, which asyncHandler turns into *)
(* the 500 error envelope.                                                 *)
(***************************************************************************)
EXTENDS Naturals, Sequences, FiniteSets, TLC

\* ---------------------------------------------------------------- bounds
MaxUsers == 2
MaxProjects == 2
MaxContents == 1
MaxVersions == 3
MaxTokens == 3
MaxListed == 4
MaxPage == 3
MaxLimit == 3

UserIds == 1..MaxUsers
\* an id that names no user document
GhostUser == MaxUsers + 1
ProjectIds == 1..MaxProjects
ContentIds == 1..MaxContents
VersionIds == 1..MaxVersions
\* refresh tokens: token n is the n-th one signed
TokenIds == 1..MaxTokens
\* JavaScript undefined: an unset field, a key the object does not have
Undefined == 0
\* a string that jwt.verify rejects
MalformedToken == MaxTokens + 1

\* project.model.js: role enum of a member entry
Roles == {"owner", "editor", "member"}
\* role strings a request body may carry for approveUser
BodyRoles == {"owner", "editor", "member", "admin"}
\* req.body.type of createContent / updateContent
Types == {"t1", "t2"}
\* uploadOnCloudinary: the file's url, or nothing ("" after `file?.url || ""`)
Uploads == {"url", ""}
\* req.body.name / req.body.description of updateProject ("" : omitted)
NameInputs == {"", "n2"}
DescriptionInputs == {"", "d1"}

VARIABLES
    projects,      \* Project collection: [id -> [name, description, members]]
    contents,      \* Content collection: [id -> [projectId, type, versions]]
    versions,      \* Version collection: [id -> [contentId, uploadedBy, filePath, approved]]
    projectRoles,  \* User collection: [userId -> [projectId -> role]] (a Map per user)
    nextId,        \* ids handed out so far, per collection (ObjectIds are never reused)
    inflight,      \* approveVersion requests between their storage calls, each with the
                   \* documents it loaded; again: it repeats the request answered last
    resp,          \* the response to the latest request (status 0 until it is sent)
    auth           \* User.refreshToken per user, and the refresh tokens signed so far

vars == <<projects, contents, versions, projectRoles, nextId, inflight, resp, auth>>

\* ---------------------------------------------------------------- helpers
\* req.user.projectRoles.get(projectId.toString()): the role, or undefined
userRole(u, p) ==
    IF p \in DOMAIN projectRoles[u] THEN projectRoles[u][p] ELSE "undefined"

\* Map.set(key, value)
MapSet(m, k, v) == [x \in DOMAIN m \cup {k} |-> IF x = k THEN v ELSE m[x]]

\* mutant: the registry write is lost
registryKeep(pr, u, p, role) == pr

\* user.projectRoles.set(projectId, role) on user u's document, then save
registrySet(pr, u, p, role) == [pr EXCEPT ![u] = MapSet(@, p, role)]

\* collection without document id
Without(coll, id) == [x \in DOMAIN coll \ {id} |-> coll[x]]

\* collection with document id added or replaced
With(coll, id, doc) == [x \in DOMAIN coll \cup {id} |-> IF x = id THEN doc ELSE coll[x]]

\* Array.prototype.indexOf / findIndex, 1-based; 0 when absent (-1 in the source)
indexOf(s, x) ==
    IF \E i \in 1..Len(s) : s[i] = x
    THEN CHOOSE i \in 1..Len(s) : s[i] = x /\ \A j \in 1..(i - 1) : s[j] # x
    ELSE 0

\* Array.prototype.splice(index, 1), 1-based
splice(s, i) == [j \in 1..(Len(s) - 1) |-> IF j < i THEN s[j] ELSE s[j + 1]]

\* Array.prototype.unshift(x)
unshift(s, x) == <<x>> \o s

\* new ApiResponse / ApiError envelope: the status and what was asked
Respond(op, status, u, req) == [op |-> op, status |-> status, user |-> u, req |-> req]

\* a request accepted and not answered yet: no status so far
Pending(op, u, req) == [op |-> op, status |-> 0, user |-> u, req |-> req]

Idle == inflight = <<>>

\* no user has a refreshToken stored and no token has been signed
NoSessions == [refreshToken |-> [u \in UserIds |-> Undefined], signed |-> <<>>]

Init ==
    /\ projects = <<>>
    /\ contents = <<>>
    /\ versions = <<>>
    /\ projectRoles = [u \in UserIds |-> <<>>]
    /\ nextId = [project |-> 1, content |-> 1, version |-> 1]
    /\ inflight = <<>>
    /\ resp = Respond("none", 0, 0, <<>>)
    /\ auth = NoSessions

\* ---------------------------------------------------------------- project controller
\* createProject: Project.create with the creator as owner, then the registry entry
createProject(u) ==
    /\ Idle
    /\ nextId.project <= MaxProjects
    /\ LET id == nextId.project IN
        /\ projects' = With(projects, id,
                [name |-> "n1", description |-> "d1",
                 members |-> <<[userId |-> u, role |-> "owner"]>>])
        /\ projectRoles' = registrySet(projectRoles, u, id, "owner")
        /\ nextId' = [nextId EXCEPT !.project = id + 1]
        /\ resp' = Respond("createProject", 201, u, [projectId |-> id])
    /\ UNCHANGED <<contents, versions, inflight, auth>>

\* mutant: the body role is not validated
approveUserStatusAnyRole(u, requesterId, projectId, role) ==
    IF projectId \notin DOMAIN projects THEN 404
    ELSE IF userRole(u, projectId) # "owner" THEN 403
    ELSE IF requesterId \notin UserIds THEN 500
    ELSE 200

\* mutant: the requester document is used before the caller's role is checked
approveUserStatusRequesterFirst(u, requesterId, projectId, role) ==
    IF projectId \notin DOMAIN projects THEN 404
    ELSE IF requesterId \notin UserIds THEN 500
    ELSE IF userRole(u, projectId) # "owner" THEN 403
    ELSE IF role \notin {"editor", "member"} THEN 400
    ELSE 200

\* approveUser, the order of its checks: project, caller's role, body role,
\* then the first use of the requester document (null for an unknown id)
approveUserStatus(u, requesterId, projectId, role) ==
    IF projectId \notin DOMAIN projects THEN 404
    ELSE IF userRole(u, projectId) # "owner" THEN 403
    ELSE IF role \notin {"editor", "member"} THEN 400
    ELSE IF requesterId \notin UserIds THEN 500
    ELSE 200

\* project.members.findIndex(member => member.userId == requesterId)
memberIndex(members, requesterId) ==
    IF \E i \in 1..Len(members) : members[i].userId = requesterId
    THEN CHOOSE i \in 1..Len(members) :
            /\ members[i].userId = requesterId
            /\ \A j \in 1..(i - 1) : members[j].userId # requesterId
    ELSE 0

\* mutant: always push a new entry
upsertMemberPush(members, requesterId, role) ==
    Append(members, [userId |-> requesterId, role |-> role])

\* approveUser: update the member's role in place, else push a new entry
upsertMember(members, requesterId, role) ==
    IF memberIndex(members, requesterId) # 0
    THEN [members EXCEPT ![memberIndex(members, requesterId)].role = role]
    ELSE Append(members, [userId |-> requesterId, role |-> role])

approveUser(u, requesterId, projectId, role) ==
    /\ Idle
    /\ LET st == approveUserStatus(u, requesterId, projectId, role) IN
        /\ resp' = Respond("approveUser", st, u,
                [requesterId |-> requesterId, projectId |-> projectId, role |-> role])
        /\ IF st = 200
           THEN /\ projectRoles' = registrySet(projectRoles, requesterId, projectId, role)
                /\ projects' = [projects EXCEPT
                        ![projectId].members = upsertMember(@, requesterId, role)]
           ELSE UNCHANGED <<projectRoles, projects>>
    /\ UNCHANGED <<contents, versions, nextId, inflight, auth>>

getProjectById(u, projectId) ==
    /\ Idle
    /\ resp' = Respond("getProjectById",
                       IF projectId \in DOMAIN projects THEN 200 ELSE 404,
                       u, [projectId |-> projectId])
    /\ UNCHANGED <<projects, contents, versions, projectRoles, nextId, inflight, auth>>

\* updateProject / deleteProject: the role check comes before the lookup
ownerThenFound(u, projectId) ==
    IF userRole(u, projectId) # "owner" THEN 403
    ELSE IF projectId \notin DOMAIN projects THEN 404
    ELSE 200

\* `x || prior`: an omitted (falsy) field keeps the stored value
orPrior(x, prior) == IF x = "" THEN prior ELSE x

updateProject(u, projectId, name, description) ==
    /\ Idle
    /\ LET st == ownerThenFound(u, projectId) IN
        /\ resp' = Respond("updateProject", st, u, [projectId |-> projectId])
        /\ IF st = 200
           THEN projects' = [projects EXCEPT
                    ![projectId].name = orPrior(name, @),
                    ![projectId].description = orPrior(description, @)]
           ELSE UNCHANGED projects
    /\ UNCHANGED <<contents, versions, projectRoles, nextId, inflight, auth>>

deleteProject(u, projectId) ==
    /\ Idle
    /\ LET st == ownerThenFound(u, projectId) IN
        /\ resp' = Respond("deleteProject", st, u, [projectId |-> projectId])
        /\ IF st = 200
           THEN projects' = Without(projects, projectId)
           ELSE UNCHANGED projects
    /\ UNCHANGED <<contents, versions, projectRoles, nextId, inflight, auth>>

\* getAllProjects, $lookup and $unwind: a project row per member that is a
\* user; a project none of whose members is a user has no row.  $group: one
\* row per project again, in no specified order.
joined(ps) ==
    {p \in DOMAIN ps : \E i \in 1..Len(ps[p].members) : ps[p].members[i].userId \in UserIds}
listings(ps) ==
    {o \in [1..Cardinality(joined(ps)) -> joined(ps)] : \A i, j \in DOMAIN o : o[i] = o[j] => i = j}

\* mutant: the skip counts the requested page too
skipCountThisPage(page, limit) == page * limit

\* $skip: (page - 1) * limit
skipCount(page, limit) == (page - 1) * limit

\* $skip then $limit on a listing
skipLimit(listing, page, limit) ==
    [i \in 1..(IF Len(listing) <= skipCount(page, limit) THEN 0
               ELSE IF Len(listing) - skipCount(page, limit) < limit
                    THEN Len(listing) - skipCount(page, limit)
               ELSE limit)
        |-> listing[skipCount(page, limit) + i]]

\* Math.ceil(totalProjects / limit)
ceilDiv(n, d) == IF n % d = 0 THEN n \div d ELSE (n \div d) + 1

getAllProjects(page, limit) ==
    /\ Idle
    /\ \E listing \in listings(projects) :
          resp' = Respond("getAllProjects", 200, 0,
                    [page |-> page, limit |-> limit,
                     listing |-> listing,
                     projects |-> skipLimit(listing, page, limit),
                     totalProjects |-> Cardinality(DOMAIN projects),
                     totalPages |-> ceilDiv(Cardinality(DOMAIN projects), limit)])
    /\ UNCHANGED <<projects, contents, versions, projectRoles, nextId, inflight, auth>>

\* ---------------------------------------------------------------- content controller
\* the role looked up is the one for req.params.projectId
readRoleOk(role) == role \in {"owner", "editor", "member"}
writeRoleOk(role) == role = "owner" \/ role = "editor"
ownerRoleOk(role) == role = "owner"

getAllContent(u, projectId) ==
    /\ Idle
    /\ resp' = Respond("getAllContent",
                       IF readRoleOk(userRole(u, projectId)) THEN 200 ELSE 403,
                       u, [projectId |-> projectId])
    /\ UNCHANGED <<projects, contents, versions, projectRoles, nextId, inflight, auth>>

createContent(u, projectId, type) ==
    /\ Idle
    /\ IF ~writeRoleOk(userRole(u, projectId))
       THEN /\ resp' = Respond("createContent", 403, u, [projectId |-> projectId])
            /\ UNCHANGED <<contents, nextId>>
       ELSE /\ nextId.content <= MaxContents
            /\ contents' = With(contents, nextId.content,
                    [projectId |-> projectId, type |-> type, versions |-> <<>>])
            /\ nextId' = [nextId EXCEPT !.content = @ + 1]
            /\ resp' = Respond("createContent", 201, u,
                    [projectId |-> projectId, contentId |-> nextId.content])
    /\ UNCHANGED <<projects, versions, projectRoles, inflight, auth>>

\* getContentById: role for req.params.projectId, then the lookup by contentId
getContentByIdStatus(u, contentId, projectId) ==
    IF ~readRoleOk(userRole(u, projectId)) THEN 403
    ELSE IF contentId \notin DOMAIN contents THEN 404
    ELSE 200

getContentById(u, contentId, projectId) ==
    /\ Idle
    /\ resp' = Respond("getContentById", getContentByIdStatus(u, contentId, projectId),
                       u, [contentId |-> contentId, projectId |-> projectId])
    /\ UNCHANGED <<projects, contents, versions, projectRoles, nextId, inflight, auth>>

\* updateContent / deleteContent: owner for req.params.projectId, then the lookup
ownerThenContent(u, contentId, projectId) ==
    IF ~ownerRoleOk(userRole(u, projectId)) THEN 403
    ELSE IF contentId \notin DOMAIN contents THEN 404
    ELSE 200

updateContent(u, contentId, projectId, type) ==
    /\ Idle
    /\ LET st == ownerThenContent(u, contentId, projectId) IN
        /\ resp' = Respond("updateContent", st, u,
                [contentId |-> contentId, projectId |-> projectId])
        /\ IF st = 200
           THEN contents' = [contents EXCEPT ![contentId].type = type]
           ELSE UNCHANGED contents
    /\ UNCHANGED <<projects, versions, projectRoles, nextId, inflight, auth>>

deleteContent(u, contentId, projectId) ==
    /\ Idle
    /\ LET st == ownerThenContent(u, contentId, projectId) IN
        /\ resp' = Respond("deleteContent", st, u,
                [contentId |-> contentId, projectId |-> projectId])
        /\ IF st = 200
           THEN contents' = Without(contents, contentId)
           ELSE UNCHANGED contents
    /\ UNCHANGED <<projects, versions, projectRoles, nextId, inflight, auth>>

\* ---------------------------------------------------------------- version controller
\* getAllVersions: content.projectId is read with no null check on content
getAllVersionsStatus(u, contentId) ==
    IF contentId \notin DOMAIN contents THEN 500
    ELSE IF ~readRoleOk(userRole(u, contents[contentId].projectId)) THEN 403
    ELSE 200

getAllVersions(u, contentId) ==
    /\ Idle
    /\ resp' = Respond("getAllVersions", getAllVersionsStatus(u, contentId),
                       u, [contentId |-> contentId])
    /\ UNCHANGED <<projects, contents, versions, projectRoles, nextId, inflight, auth>>

createVersionStatus(u, contentId) ==
    IF contentId \notin DOMAIN contents THEN 404
    ELSE IF ~writeRoleOk(userRole(u, contents[contentId].projectId)) THEN 403
    ELSE 201

\* createVersion: Version.create (approved left unset), then push and content.save
createVersion(u, contentId, file) ==
    /\ Idle
    /\ LET st == createVersionStatus(u, contentId) IN
       IF st # 201
       THEN /\ resp' = Respond("createVersion", st, u, [contentId |-> contentId])
            /\ UNCHANGED <<contents, versions, nextId>>
       ELSE /\ nextId.version <= MaxVersions
            /\ versions' = With(versions, nextId.version,
                    [contentId |-> contentId, uploadedBy |-> u,
                     filePath |-> file, approved |-> FALSE])
            /\ contents' = [contents EXCEPT
                    ![contentId].versions = Append(@, nextId.version)]
            /\ nextId' = [nextId EXCEPT !.version = @ + 1]
            /\ resp' = Respond("createVersion", 201, u,
                    [contentId |-> contentId, versionId |-> nextId.version])
    /\ UNCHANGED <<projects, projectRoles, inflight, auth>>

\* getVersionById: the version by versionId, the content by req.params.contentId,
\* the role for that content's project
getVersionByIdStatus(u, versionId, contentId) ==
    IF versionId \notin DOMAIN versions THEN 404
    ELSE IF contentId \notin DOMAIN contents THEN 404
    ELSE IF ~readRoleOk(userRole(u, contents[contentId].projectId)) THEN 403
    ELSE 200

getVersionById(u, versionId, contentId) ==
    /\ Idle
    /\ resp' = Respond("getVersionById", getVersionByIdStatus(u, versionId, contentId),
                       u, [versionId |-> versionId, contentId |-> contentId])
    /\ UNCHANGED <<projects, contents, versions, projectRoles, nextId, inflight, auth>>

\* updateVersion / deleteVersion: version, then its content, then the role
versionThenRole(u, versionId, allowed) ==
    IF versionId \notin DOMAIN versions THEN 404
    ELSE IF versions[versionId].contentId \notin DOMAIN contents THEN 404
    ELSE IF userRole(u, contents[versions[versionId].contentId].projectId) \notin allowed
         THEN 403
    ELSE 200

updateVersionStatus(u, versionId) == versionThenRole(u, versionId, {"owner", "editor"})

updateVersion(u, versionId, file) ==
    /\ Idle
    /\ LET st == updateVersionStatus(u, versionId) IN
        /\ resp' = Respond("updateVersion", st, u, [versionId |-> versionId])
        /\ IF st = 200
           THEN versions' = [versions EXCEPT
                    ![versionId].uploadedBy = u,
                    ![versionId].filePath = file]
           ELSE UNCHANGED versions
    /\ UNCHANGED <<projects, contents, projectRoles, nextId, inflight, auth>>

deleteVersionStatus(u, versionId) == versionThenRole(u, versionId, {"owner"})

\* deleteVersion: version.remove() only; the content's list is not touched
deleteVersion(u, versionId) ==
    /\ Idle
    /\ LET st == deleteVersionStatus(u, versionId) IN
        /\ resp' = Respond("deleteVersion", st, u, [versionId |-> versionId])
        /\ IF st = 200
           THEN versions' = Without(versions, versionId)
           ELSE UNCHANGED versions
    /\ UNCHANGED <<projects, contents, projectRoles, nextId, inflight, auth>>

\* approveVersion up to its role check; project._id is read with no null check
approveVersionStatus(u, versionId) ==
    IF versionId \notin DOMAIN versions THEN 404
    ELSE IF versions[versionId].contentId \notin DOMAIN contents THEN 404
    ELSE IF contents[versions[versionId].contentId].projectId \notin DOMAIN projects
         THEN 500
    ELSE IF ~ownerRoleOk(userRole(u, contents[versions[versionId].contentId].projectId))
         THEN 403
    ELSE 200

\* mutant: the version is put at the end of the list
moveToFrontPush(list, versionId) ==
    (IF indexOf(list, versionId) > 0
     THEN splice(list, indexOf(list, versionId))
     ELSE list) \o <<versionId>>

\* approveVersion: indexOf, splice when found, unshift, on the loaded content
moveToFront(list, versionId) ==
    unshift(IF indexOf(list, versionId) > 0
            THEN splice(list, indexOf(list, versionId))
            ELSE list,
            versionId)

\* mutant: the updateMany filter matches nothing
updateManyNothing(vs, contentId) == vs

\* mutant: the updateMany sets the flag instead of clearing it
updateManyApprove(vs, contentId) ==
    [v \in DOMAIN vs |->
        IF vs[v].contentId = contentId THEN [vs[v] EXCEPT !.approved = TRUE] ELSE vs[v]]

\* Version.updateMany({contentId}, {$set: {approved: false}})
updateManyUnapprove(vs, contentId) ==
    [v \in DOMAIN vs |->
        IF vs[v].contentId = contentId THEN [vs[v] EXCEPT !.approved = FALSE] ELSE vs[v]]

\* version.approved = true; version.save(), on the document findById loaded at
\* line 145.  save() sends the paths the document marks as modified, and an
\* assignment marks a path only when the value differs from the loaded one:
\* when the loaded document already had approved = true nothing is written.
saveApproved(vs, versionId, loaded) ==
    IF loaded THEN vs ELSE [vs EXCEPT ![versionId].approved = TRUE]

\* approveVersion, lines 145-165: the lookups, the role check and the reordering
\* of the loaded content document; request r then waits at updateMany
approveVersionBegin(r, u, versionId) ==
    /\ r \notin DOMAIN inflight
    /\ LET st == approveVersionStatus(u, versionId) IN
       IF st # 200
       THEN /\ resp' = Respond("approveVersion", st, u, [versionId |-> versionId])
            /\ UNCHANGED inflight
       ELSE /\ inflight' = With(inflight, r,
                    [pc |-> "updateMany", user |-> u, versionId |-> versionId,
                     contentId |-> versions[versionId].contentId,
                     loaded |-> versions[versionId].approved,
                     again |-> resp = Respond("approveVersion", 200, u,
                                              [versionId |-> versionId]),
                     list |-> moveToFront(
                         contents[versions[versionId].contentId].versions, versionId)])
            /\ resp' = Pending("approveVersion", u, [versionId |-> versionId])
    /\ UNCHANGED <<projects, contents, versions, projectRoles, nextId, auth>>

\* approveVersion, lines 167-170
approveVersionUpdateMany(r) ==
    /\ r \in DOMAIN inflight
    /\ inflight[r].pc = "updateMany"
    /\ versions' = updateManyUnapprove(versions, inflight[r].contentId)
    /\ inflight' = [inflight EXCEPT ![r].pc = "versionSave"]
    /\ UNCHANGED <<projects, contents, projectRoles, nextId, resp, auth>>

\* approveVersion, lines 171-172
approveVersionSave(r) ==
    /\ r \in DOMAIN inflight
    /\ inflight[r].pc = "versionSave"
    /\ versions' = saveApproved(versions, inflight[r].versionId, inflight[r].loaded)
    /\ inflight' = [inflight EXCEPT ![r].pc = "contentSave"]
    /\ UNCHANGED <<projects, contents, projectRoles, nextId, resp, auth>>

\* approveVersion, lines 174-176: content.save() writes the reordered list
approveVersionContentSave(r) ==
    /\ r \in DOMAIN inflight
    /\ inflight[r].pc = "contentSave"
    /\ contents' = [contents EXCEPT ![inflight[r].contentId].versions = inflight[r].list]
    /\ inflight' = Without(inflight, r)
    /\ resp' = Respond("approveVersion", 200, inflight[r].user,
                       [versionId |-> inflight[r].versionId])
    /\ UNCHANGED <<projects, versions, projectRoles, nextId, auth>>

\* ---------------------------------------------------------------- user controller
\* user.generateRefreshToken(): a token signed for user u, unlike any signed before
generateRefreshToken(a, u) == Len(a.signed) + 1

\* generateAccessAndRefreshTokens: sign, store on the user document, save
storeRefreshToken(a, u) ==
    [refreshToken |-> [a.refreshToken EXCEPT ![u] = generateRefreshToken(a, u)],
     signed |-> Append(a.signed, u)]

\* jwt.verify: the token is one that was signed and has not expired
verifies(a, token, expired) == token \in 1..Len(a.signed) /\ ~expired

\* loginUser: 401 on bad credentials, else new tokens, handed to the client
loginUser(u, passwordOk) ==
    /\ Idle
    /\ IF ~passwordOk
       THEN /\ resp' = Respond("loginUser", 401, u, [refreshToken |-> Undefined])
            /\ UNCHANGED auth
       ELSE /\ Len(auth.signed) < MaxTokens
            /\ auth' = storeRefreshToken(auth, u)
            /\ resp' = Respond("loginUser", 200, u,
                    [refreshToken |-> generateRefreshToken(auth, u)])
    /\ UNCHANGED <<projects, contents, versions, projectRoles, nextId, inflight>>

\* logoutUser: $unset refreshToken on the caller's document
logoutUser(u) ==
    /\ Idle
    /\ auth' = [auth EXCEPT !.refreshToken[u] = Undefined]
    /\ resp' = Respond("logoutUser", 200, u, [refreshToken |-> Undefined])
    /\ UNCHANGED <<projects, contents, versions, projectRoles, nextId, inflight>>

\* mutant: the presented token is not compared with the stored one
refreshStatusNoCompare(a, token, expired) ==
    IF token = Undefined THEN 401
    ELSE IF ~verifies(a, token, expired) THEN 401
    ELSE 200

\* refreshAccessToken up to the comparison with the stored token; every throw
\* inside the try block comes out as 401
refreshStatus(a, token, expired) ==
    IF token = Undefined THEN 401
    ELSE IF ~verifies(a, token, expired) THEN 401
    ELSE IF token # a.refreshToken[a.signed[token]] THEN 401
    ELSE 200

\* refreshAccessToken: on success new tokens are stored; the response takes
\* newRefreshToken from an object whose keys are accessToken and refreshToken
refreshAccessToken(token, expired) ==
    /\ Idle
    /\ IF refreshStatus(auth, token, expired) # 200
       THEN /\ resp' = Respond("refreshAccessToken", 401,
                    IF verifies(auth, token, expired) THEN auth.signed[token] ELSE 0,
                    [token |-> token, refreshToken |-> Undefined])
            /\ UNCHANGED auth
       ELSE /\ Len(auth.signed) < MaxTokens
            /\ auth' = storeRefreshToken(auth, auth.signed[token])
            /\ resp' = Respond("refreshAccessToken", 200, auth.signed[token],
                    [token |-> token, refreshToken |-> Undefined])
    /\ UNCHANGED <<projects, contents, versions, projectRoles, nextId, inflight>>

\* ---------------------------------------------------------------- specifications
\* The project controller on an empty database.
ProjectRequests ==
    \/ \E u \in UserIds : createProject(u)
    \/ \E u \in UserIds, t \in UserIds \cup {GhostUser}, p \in ProjectIds, r \in BodyRoles :
            approveUser(u, t, p, r)
    \/ \E u \in UserIds, p \in ProjectIds : getProjectById(u, p)
    \/ \E u \in UserIds, p \in ProjectIds, n \in NameInputs, d \in DescriptionInputs :
            updateProject(u, p, n, d)
    \/ \E u \in UserIds, p \in ProjectIds : deleteProject(u, p)

SpecProject == Init /\ [][ProjectRequests]_vars

ContentRequests ==
    \/ \E u \in UserIds, p \in ProjectIds : getAllContent(u, p)
    \/ \E u \in UserIds, p \in ProjectIds, t \in Types : createContent(u, p, t)
    \/ \E u \in UserIds, c \in ContentIds, p \in ProjectIds : getContentById(u, c, p)
    \/ \E u \in UserIds, c \in ContentIds, p \in ProjectIds, t \in Types :
            updateContent(u, c, p, t)
    \/ \E u \in UserIds, c \in ContentIds, p \in ProjectIds : deleteContent(u, c, p)

VersionRequests ==
    \/ \E u \in UserIds, c \in ContentIds : getAllVersions(u, c)
    \/ \E u \in UserIds, c \in ContentIds, f \in Uploads : createVersion(u, c, f)
    \/ \E u \in UserIds, v \in VersionIds, c \in ContentIds : getVersionById(u, v, c)
    \/ \E u \in UserIds, v \in VersionIds, f \in Uploads : updateVersion(u, v, f)
    \/ \E u \in UserIds, v \in VersionIds : deleteVersion(u, v)

\* the storage steps of an approveVersion request in flight
ApproveSteps(r) ==
    \/ approveVersionUpdateMany(r)
    \/ approveVersionSave(r)
    \/ approveVersionContentSave(r)

\* The database after createProject by user 1, createProject by user 2 and
\* approveUser by user 1 making user 2 an editor or a member of project 1;
\* user 1 has no entry for project 2.
InitProjects ==
    /\ \E r \in {"editor", "member"} :
        /\ projects = [p \in 1..2 |->
                [name |-> "n1", description |-> "d1",
                 members |-> IF p = 1
                             THEN <<[userId |-> 1, role |-> "owner"],
                                    [userId |-> 2, role |-> r]>>
                             ELSE <<[userId |-> 2, role |-> "owner"]>>]]
        /\ projectRoles = [u \in UserIds |->
                IF u = 1 THEN (1 :> "owner")
                ELSE IF u = 2 THEN (1 :> r) @@ (2 :> "owner")
                ELSE <<>>]
    /\ contents = <<>>
    /\ versions = <<>>
    /\ nextId = [project |-> 3, content |-> 1, version |-> 1]
    /\ inflight = <<>>
    /\ resp = Respond("none", 0, 0, <<>>)
    /\ auth = NoSessions

\* The content controller alone.
SpecContent == InitProjects /\ [][ContentRequests]_vars

\* The version controller, with contents created and deleted under it; requests
\* are handled one at a time, an approveVersion one storage call at a time.
Next ==
    \/ \E u \in UserIds, p \in ProjectIds, t \in Types : createContent(u, p, t)
    \/ \E u \in UserIds, c \in ContentIds, p \in ProjectIds : deleteContent(u, c, p)
    \/ VersionRequests
    \/ \E u \in UserIds, v \in VersionIds : Idle /\ approveVersionBegin("A", u, v)
    \/ ApproveSteps("A")

Spec == InitProjects /\ [][Next]_vars

\* Two approveVersion requests may overlap at their storage calls; the requests
\* that write versions run between them (one content type and one upload: the
\* approval reads neither).
NextConc ==
    \/ \E u \in UserIds, p \in ProjectIds : createContent(u, p, "t1")
    \/ \E u \in UserIds, c \in ContentIds : createVersion(u, c, "url")
    \/ \E u \in UserIds, v \in VersionIds : deleteVersion(u, v)
    \/ \E r \in {"A", "B"}, u \in UserIds, v \in VersionIds : approveVersionBegin(r, u, v)
    \/ \E r \in {"A", "B"} : ApproveSteps(r)

SpecConc == InitProjects /\ [][NextConc]_vars

\* Projects deleted over their contents and versions, and requests that name
\* documents that are gone: reads, an approval, and approveUser for a user id
\* with no document (one content type and one upload: none of these reads them).
NextOrphans ==
    \/ \E u \in UserIds, p \in ProjectIds : deleteProject(u, p)
    \/ \E u \in UserIds, p \in ProjectIds, r \in {"editor", "owner"} :
            approveUser(u, GhostUser, p, r)
    \/ \E u \in UserIds, p \in ProjectIds : createContent(u, p, "t1")
    \/ \E u \in UserIds, p \in ProjectIds : getAllContent(u, p)
    \/ \E u \in UserIds, c \in ContentIds, p \in ProjectIds : getContentById(u, c, p)
    \/ \E u \in UserIds, c \in ContentIds : createVersion(u, c, "url")
    \/ \E u \in UserIds, c \in ContentIds : getAllVersions(u, c)
    \/ \E u \in UserIds, v \in VersionIds, c \in ContentIds : getVersionById(u, v, c)
    \/ \E u \in UserIds, v \in VersionIds : Idle /\ approveVersionBegin("A", u, v)
    \/ ApproveSteps("A")

SpecOrphans == InitProjects /\ [][NextOrphans]_vars

\* The database after user 1 has created up to MaxListed projects.
InitListed ==
    /\ \E n \in 0..MaxListed :
        /\ projects = [p \in 1..n |->
                [name |-> "n1", description |-> "d1",
                 members |-> <<[userId |-> 1, role |-> "owner"]>>]]
        /\ projectRoles = [u \in UserIds |->
                IF u = 1 THEN [p \in 1..n |-> "owner"] ELSE <<>>]
        /\ nextId = [project |-> n + 1, content |-> 1, version |-> 1]
    /\ contents = <<>>
    /\ versions = <<>>
    /\ inflight = <<>>
    /\ resp = Respond("none", 0, 0, <<>>)
    /\ auth = NoSessions

\* Listing the projects, between deletions.
ListRequests ==
    \/ \E page \in 1..MaxPage, limit \in 1..MaxLimit : getAllProjects(page, limit)
    \/ \E u \in UserIds, p \in 1..MaxListed : deleteProject(u, p)

SpecListing == InitListed /\ [][ListRequests]_vars

\* The session requests of the user controller.
AuthRequests ==
    \/ \E u \in UserIds, ok \in BOOLEAN : loginUser(u, ok)
    \/ \E u \in UserIds : logoutUser(u)
    \/ \E t \in {Undefined, MalformedToken} \cup TokenIds, e \in BOOLEAN :
            refreshAccessToken(t, e)

SpecAuth == Init /\ [][AuthRequests]_vars

\* ---------------------------------------------------------------- properties
\* The required-role table of the authorization guard, per action.
RequiredRoles(op) ==
    CASE op \in {"getAllContent", "getContentById", "getAllVersions", "getVersionById"}
            -> {"owner", "editor", "member"}
      [] op \in {"createContent", "createVersion", "updateVersion"}
            -> {"owner", "editor"}
      [] OTHER -> {"owner"}

GuardedOps ==
    {"getAllContent", "createContent", "getContentById", "updateContent", "deleteContent",
     "getAllVersions", "createVersion", "getVersionById", "updateVersion", "deleteVersion",
     "approveVersion", "approveUser", "updateProject", "deleteProject"}

\* The project that owns the resource a request r targets, as stored when the
\* request arrives: the project itself, the content's projectId, or the
\* projectId of the version's content.  Empty when the target does not exist.
TargetProjects(r) ==
    IF r.op \in {"getAllContent", "createContent", "approveUser", "updateProject",
                 "deleteProject"}
    THEN {r.req.projectId} \cap DOMAIN projects
    ELSE IF r.op \in {"getContentById", "updateContent", "deleteContent",
                      "getAllVersions", "createVersion"}
    THEN {contents[c].projectId : c \in {r.req.contentId} \cap DOMAIN contents}
    ELSE IF r.op \in {"getVersionById", "updateVersion", "deleteVersion", "approveVersion"}
    THEN {contents[c].projectId :
            c \in {versions[v].contentId : v \in {r.req.versionId} \cap DOMAIN versions}
                  \cap DOMAIN contents}
    ELSE {}

Answered(r) == r.status # 0
Permitted(r) == r.status \in {200, 201}
stored == <<projects, contents, versions, projectRoles>>

\* C1: a user with no registry entry for project P gets 403 from every guarded
\* action on P or on a content or version under P.
C1_NoEntryAlwaysDenied ==
    [][\A p \in TargetProjects(resp') :
          (Answered(resp') /\ resp'.op \in GuardedOps
             /\ p \notin DOMAIN projectRoles[resp'.user])
          => resp'.status = 403]_vars

\* C2: content get/update/delete and version get succeed only for a caller whose
\* role in the project owning the target is in the action's required set,
\* whatever projectId / contentId the request carries.
C2_OwningProjectDecides ==
    [][\A p \in TargetProjects(resp') :
          (resp'.op \in {"getContentById", "updateContent", "deleteContent",
                         "getVersionById"}
             /\ Permitted(resp'))
          => userRole(resp'.user, p) \in RequiredRoles(resp'.op)]_vars

\* C3: a guarded action on an existing resource is permitted iff the caller's
\* role for the resource's project is in the required set of the action, and a
\* denial leaves every stored document as it was.
C3_PermittedIffRoleInSet ==
    [][\A p \in TargetProjects(resp') :
          (Answered(resp') /\ resp'.op \in GuardedOps)
          => /\ Permitted(resp') <=> userRole(resp'.user, p) \in RequiredRoles(resp'.op)
             /\ resp'.status = 403 => stored' = stored]_vars

\* versions of content c that carry approved = true
ApprovedIn(vs, c) == {v \in DOMAIN vs : vs[v].contentId = c /\ vs[v].approved}
Approved(c) == ApprovedIn(versions, c)

\* list s without every occurrence of x
Remove(s, x) == SelectSeq(s, LAMBDA y : y # x)

\* C4: when approveVersion(V) answers 200, V is the only approved version of its
\* content C, and C's version list is the list before the request with V taken
\* out and put at index 0, the others in their order.
C4_ApproveMovesToFront ==
    [][(resp'.op = "approveVersion" /\ resp'.status = 200)
       => LET v == resp'.req.versionId
              c == versions[v].contentId
          IN  /\ ApprovedIn(versions', c) = {v}
              /\ contents'[c].versions = <<v>> \o Remove(contents[c].versions, v)]_vars

\* C4 witness: three versions created in the order 1, 2, 3; version 3 approved,
\* then version 2: 2 heads the list, 3 and 1 follow in the order they had, and
\* the earlier approval of 3 is gone
C4_Witness ==
    /\ resp.op = "approveVersion" /\ resp.status = 200 /\ resp.req.versionId = 2
    /\ {1, 2, 3} \subseteq DOMAIN versions
    /\ versions[2].approved /\ ~versions[1].approved /\ ~versions[3].approved
    /\ versions[2].contentId \in DOMAIN contents
    /\ contents[versions[2].contentId].versions = <<2, 3, 1>>

\* C5: with requests handled one at a time, no content ever has two approved
\* versions, also between the storage calls of an approveVersion.
C5_AtMostOneApproved == \A c \in ContentIds : Cardinality(Approved(c)) <= 1

\* C5 witness: an approveVersion between version.save and content.save, its
\* version approved while another version still heads the stored list
C5_Witness ==
    /\ "A" \in DOMAIN inflight
    /\ inflight["A"].pc = "contentSave"
    /\ versions[inflight["A"].versionId].approved
    /\ contents[inflight["A"].contentId].versions[1] # inflight["A"].versionId
    /\ \E w \in DOMAIN versions :
          /\ w # inflight["A"].versionId
          /\ versions[w].contentId = inflight["A"].contentId
          /\ contents[inflight["A"].contentId].versions[1] = w

\* C6: two approveVersion requests for two versions of one content, interleaved
\* at their storage calls, can leave both versions approved.  The step that
\* makes a second version approved is always the version.save of a request
\* whose updateMany ran before another version of the content was approved.
C6_RaceBreaksOnlyAtSave ==
    [][\A c \in ContentIds :
          (Cardinality(Approved(c)) <= 1 /\ Cardinality(ApprovedIn(versions', c)) > 1)
          => \E r \in DOMAIN inflight :
                /\ inflight[r].pc = "versionSave"
                /\ inflight[r].contentId = c
                /\ approveVersionSave(r)
                /\ Approved(c) \ {inflight[r].versionId} # {}]_vars

\* C6 witness: both requests answered, two versions of one content approved
C6_Witness ==
    /\ Idle
    /\ resp.op = "approveVersion" /\ resp.status = 200
    /\ \E c \in DOMAIN contents : Cardinality(Approved(c)) = 2

\* C6, second outcome: both requests answered, the approved version not at the head
C6_ApprovedNotHead ==
    /\ Idle
    /\ \E c \in DOMAIN contents : \E v \in Approved(c) :
          /\ Cardinality(Approved(c)) = 1
          /\ contents[c].versions[1] # v
          /\ contents[c].versions[1] \in DOMAIN versions

\* C7 as stated: approveUser with a role outside {editor, member} answers 400
\* whatever the caller's role.
C7_InvalidRoleAlways400 ==
    (resp.op = "approveUser" /\ resp.req.role \notin {"editor", "member"})
    => resp.status = 400

\* C7 amended: approveUser with a role outside {editor, member} never succeeds
\* and writes nothing; it answers 400 when the project exists and the caller is
\* its owner (the target may be unknown), 403 when the project exists and the
\* caller is not its owner, 404 when the project does not exist.
C7_InvalidRoleRejected ==
    [][(resp'.op = "approveUser" /\ resp'.req.role \notin {"editor", "member"})
       => /\ resp'.status =
                IF resp'.req.projectId \notin DOMAIN projects THEN 404
                ELSE IF userRole(resp'.user, resp'.req.projectId) # "owner" THEN 403
                ELSE 400
          /\ stored' = stored]_vars

\* C7 witness: the owner names an unknown target with role "owner": 400
C7_Witness ==
    /\ resp.op = "approveUser" /\ resp.status = 400
    /\ resp.req.role = "owner"
    /\ resp.req.requesterId = GhostUser
    /\ userRole(resp.user, resp.req.projectId) = "owner"

EntriesOf(members, u) == {i \in 1..Len(members) : members[i].userId = u}

\* C9: when approveUser(target, P, role) answers 200, the target's registry
\* entry for P is role, P's member list has exactly one entry for the target,
\* with that role, written in place if the target was a member and appended
\* otherwise, and every other entry is as before.
C9_ApproveUserUpserts ==
    [][(resp'.op = "approveUser" /\ resp'.status = 200)
       => LET t == resp'.req.requesterId
              p == resp'.req.projectId
              role == resp'.req.role
              old == projects[p].members
              new == projects'[p].members
          IN  /\ p \in DOMAIN projectRoles'[t] /\ projectRoles'[t][p] = role
              /\ Cardinality(EntriesOf(new, t)) = 1
              /\ \A i \in EntriesOf(new, t) : new[i].role = role
              /\ IF EntriesOf(old, t) # {}
                 THEN /\ Len(new) = Len(old)
                      /\ \A i \in 1..Len(old) :
                            IF old[i].userId = t
                            THEN new[i] = [userId |-> t, role |-> role]
                            ELSE new[i] = old[i]
                 ELSE new = Append(old, [userId |-> t, role |-> role])]_vars

\* C9 witness: the creator, already in a list of two, gets the role editor in
\* place of owner; the list keeps its length and its other entry
C9_Witness ==
    /\ resp.op = "approveUser" /\ resp.status = 200
    /\ LET m == projects[resp.req.projectId].members IN
          /\ Len(m) = 2
          /\ m[1].userId = resp.req.requesterId
          /\ m[1].role = "editor"
          /\ m[2].role = "member"

\* C10: for every existing project P and user U, U's registry entry for P is r
\* iff P's member list has an entry {U, r}, and U has no entry iff U is in no
\* entry of the list.
C10_RegistryMatchesMembers ==
    \A p \in DOMAIN projects : \A u \in UserIds :
        /\ \A r \in Roles :
              (userRole(u, p) = r)
              <=> (\E i \in 1..Len(projects[p].members) :
                      projects[p].members[i] = [userId |-> u, role |-> r])
        /\ (p \notin DOMAIN projectRoles[u])
              <=> (EntriesOf(projects[p].members, u) = {})

\* C10 witness: two projects, one deleted, the other with two members of
\* which the creator has been given another role
C10_Witness ==
    /\ Cardinality(DOMAIN projects) = 1
    /\ nextId.project > MaxProjects
    /\ \E p \in DOMAIN projects :
          /\ Len(projects[p].members) = 2
          /\ projects[p].members[1].role # "owner"
          /\ projects[p].name = "n2"

\* C11: when approveVersion(V) answers 200 right after an approveVersion(V)
\* that answered 200, the state is the one the first call left: V is the only
\* approved version of its content and heads the list, which is unchanged.
C11_ApproveTwiceSameAsOnce ==
    [][\A r \in DOMAIN inflight :
          (approveVersionContentSave(r) /\ inflight[r].again)
          => /\ ApprovedIn(versions', inflight[r].contentId) = {inflight[r].versionId}
             /\ contents'[inflight[r].contentId].versions
                    = contents[inflight[r].contentId].versions
             /\ contents'[inflight[r].contentId].versions[1] = inflight[r].versionId]_vars

\* list s has no id twice
NoDuplicates(s) == \A i, j \in 1..Len(s) : s[i] = s[j] => i = j

\* C18: between requests, every id in the version list of an existing content
\* names an existing version of that content, and no id is in the list twice.
C18_ListRefersToVersions ==
    Idle => \A c \in DOMAIN contents :
                /\ \A i \in 1..Len(contents[c].versions) :
                      /\ contents[c].versions[i] \in DOMAIN versions
                      /\ versions[contents[c].versions[i]].contentId = c
                /\ NoDuplicates(contents[c].versions)

\* C19: between requests, an approved version of an existing content is at
\* index 0 of that content's version list.
C19_ApprovedAtHead ==
    Idle => \A c \in DOMAIN contents : \A v \in Approved(c) :
                /\ contents[c].versions # <<>>
                /\ contents[c].versions[1] = v

\* C19 witness: version 2 approved and at the head, then a version created
\* behind it and another one updated
C19_Witness ==
    /\ Idle
    /\ resp.op = "updateVersion" /\ resp.status = 200 /\ resp.req.versionId # 2
    /\ \E c \in DOMAIN contents :
          /\ Approved(c) = {2}
          /\ contents[c].versions = <<2, 1, 3>>

\* C13: a caller denied (403) an action on an existing version gets 403 from
\* the same action on a version id that names nothing: the two responses do
\* not tell whether the target exists.
C13_DenialHidesExistence ==
    [][\A u \in UserIds, v \in DOMAIN versions, w \in VersionIds \ DOMAIN versions :
          /\ resp' = Respond("deleteVersion", 403, u, [versionId |-> v])
                => deleteVersionStatus(u, w) = 403
          /\ resp' = Respond("updateVersion", 403, u, [versionId |-> v])
                => updateVersionStatus(u, w) = 403
          /\ resp' = Respond("approveVersion", 403, u, [versionId |-> v])
                => approveVersionStatus(u, w) = 403]_vars

\* C14: a request that needs a document that is absent answers 404 and writes
\* nothing: getAllVersions for a content id with no content, approveVersion
\* for a version whose content's project is gone, approveUser by the owner,
\* with a valid role, for a user id with no user.
C14_AbsentMeansNotFound ==
    [][/\ (resp'.op = "getAllVersions" /\ resp'.req.contentId \notin DOMAIN contents)
            => (resp'.status = 404 /\ stored' = stored)
       /\ (/\ resp'.op = "approveVersion" /\ Answered(resp')
           /\ resp'.req.versionId \in DOMAIN versions
           /\ TargetProjects(resp') # {}
           /\ TargetProjects(resp') \cap DOMAIN projects = {})
            => (resp'.status = 404 /\ stored' = stored)
       /\ (/\ resp'.op = "approveUser"
           /\ resp'.req.requesterId = GhostUser
           /\ resp'.req.projectId \in DOMAIN projects
           /\ userRole(resp'.user, resp'.req.projectId) = "owner"
           /\ resp'.req.role \in {"editor", "member"})
            => (resp'.status = 404 /\ stored' = stored)]_vars

\* C15: deleteProject(P) removes the project document and nothing else, and
\* afterwards a get or list of a content or version under P answers 200 to a
\* caller whose registry holds a role for P and 403 to one whose registry
\* holds none.
C15_DeleteProjectLeavesTheRest ==
    [][/\ (resp'.op = "deleteProject" /\ resp'.status = 200)
            => /\ projects' = Without(projects, resp'.req.projectId)
               /\ <<contents, versions, projectRoles>>' = <<contents, versions, projectRoles>>
       /\ \A p \in TargetProjects(resp') \ DOMAIN projects :
            (resp'.op \in {"getContentById", "getAllVersions", "getVersionById"})
            => resp'.status = IF userRole(resp'.user, p) \in Roles THEN 200 ELSE 403]_vars

\* C12: refreshAccessToken answers 200 only when the presented token is the one
\* stored on the record of the user it was signed for; every other token,
\* a superseded one and one presented after logout included, gets 401 and
\* changes nothing.
C12_RefreshOnlyWithStoredToken ==
    [][resp'.op = "refreshAccessToken"
       => LET t == resp'.req.token
              isStored == /\ t \in 1..Len(auth.signed)
                          /\ auth.refreshToken[auth.signed[t]] = t
          IN  /\ resp'.status \in {200, 401}
              /\ resp'.status = 200 => isStored
              /\ ~isStored => (resp'.status = 401 /\ auth' = auth)]_vars

\* C12 witness: a token that was signed, not expired, and has been superseded
\* by a later token of the same user is refused
C12_Witness ==
    /\ resp.op = "refreshAccessToken" /\ resp.status = 401
    /\ resp.user \in UserIds
    /\ resp.req.token \in 1..Len(auth.signed)
    /\ auth.refreshToken[resp.user] \in TokenIds
    /\ auth.refreshToken[resp.user] # resp.req.token

\* C17: when refreshAccessToken answers 200, the refresh token in its response
\* is the token it stored on the user record.
C17_RefreshHandsBackStoredToken ==
    [][(resp'.op = "refreshAccessToken" /\ resp'.status = 200)
       => resp'.req.refreshToken = auth'.refreshToken[resp'.user]]_vars

\* C16: getAllProjects(page, limit) reports totalProjects = the number of
\* stored projects and totalPages = the least n with n * limit >= totalProjects,
\* and returns at most limit projects: the rows of the member-joined listing
\* from offset (page-1)*limit on, up to offset page*limit - 1.
C16_PageOfListing ==
    [][resp'.op = "getAllProjects"
       => LET r == resp'.req
              first == (r.page - 1) * r.limit
          IN  /\ r.totalProjects = Cardinality(DOMAIN projects)
              /\ r.totalPages * r.limit >= r.totalProjects
              /\ r.totalPages > 0 => (r.totalPages - 1) * r.limit < r.totalProjects
              /\ Len(r.projects) <= r.limit
              /\ \A i \in 1..Len(r.listing) :
                    (first < i /\ i <= first + r.limit)
                    <=> (i - first \in 1..Len(r.projects)
                         /\ r.projects[i - first] = r.listing[i])]_vars

\* C16 witness: page 2 with limit 3 over four projects: two pages, the first
\* three rows skipped and the fourth returned
C16_Witness ==
    /\ resp.op = "getAllProjects"
    /\ resp.req.page = 2 /\ resp.req.limit = 3
    /\ resp.req.totalProjects = 4 /\ resp.req.totalPages = 2
    /\ Len(resp.req.listing) = 4
    /\ resp.req.projects = <<resp.req.listing[4]>>

====
